---- MODULE Spec2Model ----
(***************************************************************************)
(* Model of thorlabs_KPRM1E.Controller: the host-side adaptor of a KDC101  *)
(* servo driver, the serial port it owns, and the device on the other end  *)
(* of the port.                                                            *)
(*                                                                         *)
(* Number representation.  The code computes in Python floats; the model   *)
(* holds every physical quantity as an integer number of fractions of its  *)
(* encoder count:                                                          *)
(*    degrees          x  is held as  x * EncCnt_per_deg        * 1000     *)
(*    degrees/second   x  is held as  x * EncCnt_per_deg_per_s  * 1000     *)
(*    degrees/second^2 x  is held as  x * EncCnt_per_deg_per_s2 * 10000    *)
(* so counts / scale is counts * 1000 (or 10000) and round(x * scale) is   *)
(* the nearest integer to x / 1000 (or 10000).  Decimal literals of the    *)
(* code (0.01, 359.99, 25) are converted by Deg, Vel and Acc.  Model       *)
(* integers are 32 bit wide: FromBytesLittle saturates at CountCap and     *)
(* position_deg at DegCap, both far above every value the code compares    *)
(* them with.                                                              *)
(***************************************************************************)
EXTENDS Integers, Sequences, FiniteSets, TLC

(***************************************************************************)
(* Bounds of the model.                                                    *)
(***************************************************************************)
\* API calls made on the session after the constructor returned.
MaxCalls == 3
\* Position queries one settle-poll loop may make before the model stops it.
MaxPolls == 2

(***************************************************************************)
(* Calibration (__init__, lines 25-28) and unit conversion.                *)
(***************************************************************************)
Abs(x) == IF x < 0 THEN -x ELSE x

Min(a, b) == IF a <= b THEN a ELSE b

\* Centi-degrees to the fixed-point degree unit: cd/100 * 1919.6418578623391
\* * 1000 = cd * 19196.418578..., to the nearest unit.
DegPos(cd) == cd * 19196 + (cd * 41858 + 50000) \div 100000

Deg(cd) == IF cd < 0 THEN -DegPos(-cd) ELSE DegPos(cd)

\* Tenths of a degree/second: d/10 * 42941.66 * 1000.
Vel(d) == d * 4294166

\* Hundredths of a degree/second^2, in ten-thousandths of a count:
\* h/100 * 14.66 * 10000.
Acc(h) == h * 1466

\* Python's round(x / unit): the nearest integer, ties to the even one.
RoundHalfEven(x, unit) ==
    LET q == x \div unit
        r == x % unit
    IN  IF 2 * r < unit THEN q
        ELSE IF 2 * r > unit THEN q + 1
        ELSE IF q % 2 = 0 THEN q ELSE q + 1

\* int(round(value * scale)) for a value held in thousandths of a count.
ToCounts(x) == RoundHalfEven(x, 1000)

\* Largest decoded count the model holds exactly, and the largest degree value.
CountCap == 2^21

DegCap == 2^20 * 1000

\* counts / scale.
FromCounts(c) == c * 1000

\* position_counts / EncCnt_per_deg (line 182).
CountsToDeg(c) == Min(FromCounts(c), DegCap)

_move_tol_deg == Deg(1)

\* round(x, 2) == 0 for a degree value x (line 120): x is nearer to 0.00 than
\* to +-0.01, that is |x| <= 0.005.
Round2IsZero(x) == 2 * Abs(x) <= Deg(1)

(***************************************************************************)
(* Bytes.                                                                  *)
(***************************************************************************)
Byte(n, i) == (n \div (256 ^ i)) % 256

\* n.to_bytes(4, byteorder='little', signed=True), for -2^31 <= n < 2^31.
ToBytesSigned(n) ==
    IF n >= 0
    THEN << Byte(n, 0), Byte(n, 1), Byte(n, 2), Byte(n, 3) >>
    ELSE LET m == -n - 1
         IN  << 255 - Byte(m, 0), 255 - Byte(m, 1),
                255 - Byte(m, 2), 255 - Byte(m, 3) >>

\* int.from_bytes(b, byteorder='little'): unsigned; the empty string is 0.
\* Values of CountCap and more are held as CountCap.
FromBytesLittle(b) ==
    LET at(i) == IF i <= Len(b) THEN b[i] ELSE 0
        low == at(1) + 256 * at(2) + 65536 * at(3)
    IN  IF at(4) > 0 THEN CountCap ELSE Min(low, CountCap)

\* b[i:j] of Python: bytes i..j-1 (0-based), cut to what b holds.
Slice(b, i, j) == SubSeq(b, i + 1, Min(j, Len(b)))

Zeros(n) == [i \in 1..n |-> 0]

(***************************************************************************)
(* Frames the host writes (the cmd of each method).                        *)
(***************************************************************************)
CmdReqInfo == << 5, 0, 0, 0, 80, 1 >>

CmdReqEnable == << 17, 2, 0, 0, 80, 1 >>

CmdSetEnable(e) == << 16, 2, 0, IF e THEN 1 ELSE 2, 80, 1 >>

CmdReqStatus == << 41, 4, 0, 0, 80, 1 >>

CmdHome == << 67, 4, 0, 0, 80, 1 >>

CmdReqVel == << 20, 4, 0, 0, 80, 1 >>

CmdIdentify == << 35, 2, 0, 0, 80, 1 >>

CmdReqPos == << 17, 4, 0, 0, 80, 1 >>

\* bytes([0x50 | 0x80]): the destination byte of a frame with a payload.
DestByte == << 208 >>

\* MGMSG_MOT_SET_VELPARAMS: header, channel, min velocity, acceleration, max.
CmdSetVel(ch, acc_counts, vel_counts) ==
    << 19, 4, 14, 0 >> \o DestByte \o << 1 >> \o ch
        \o ToBytesSigned(0) \o ToBytesSigned(acc_counts)
        \o ToBytesSigned(vel_counts)

\* MGMSG_MOT_MOVE_ABSOLUTE: header, channel, position.
CmdMoveAbs(ch, counts) ==
    << 83, 4, 6, 0 >> \o DestByte \o << 1 >> \o ch \o ToBytesSigned(counts)

MsgId(f) == << f[1], f[2] >>

IsMoveAbs(f) == MsgId(f) = << 83, 4 >>

IsSetVel(f) == MsgId(f) = << 19, 4 >>

(***************************************************************************)
(* The device: what the other end of the port holds and answers.  The     *)
(* source fixes the length of each reply and the offsets it decodes; the  *)
(* content is the device's.                                               *)
(***************************************************************************)
ExpectedModel == << 75, 68, 67, 49, 48, 49, 0, 0 >>     \* 'KDC101\x00\x00'

OtherModel == << 75, 66, 68, 49, 48, 49, 0, 0 >>        \* 'KBD101\x00\x00'

ExpectedFirmware == 131592

\* Signed decoding of four little-endian bytes, as the device reads a count.
FromBytesSigned(b) ==
    IF b[4] < 128
    THEN b[1] + 256 * b[2] + 65536 * b[3] + 16777216 * b[4]
    ELSE -(1 + (255 - b[1]) + 256 * (255 - b[2]) + 65536 * (255 - b[3])
             + 16777216 * (255 - b[4]))

\* How far from its target a stage reports itself, in counts: the tolerance
\* of 0.01 degree is 19.196 counts, so 19 is inside the band and 20 outside.
\* A stage either lags (short of the band, then on the commanded count) or
\* overshoots (the band's upper edge, or the commanded count).
Offsets == { { -20, 0 }, { 0, 19 } }

\* The 90 byte identity reply: serial [6:10], model [10:18], type [18:20],
\* firmware [20:24], hardware [84:86].
DevInfoReply(d) ==
    << 6, 0, 84, 0, 129, 80 >> \o << 21, 205, 91, 7 >> \o d.model
        \o << 44, 0 >> \o ToBytesSigned(d.firmware) \o Zeros(60)
        \o << 2, 0 >> \o Zeros(4)

\* The 6 byte enable reply: the state byte at offset 3, 1 enabled and 2
\* disabled.
DevEnableReply(d) == << 18, 2, 1, d.enable, 1, 80 >>

\* The 12 byte status reply: the homed flag is bit 2 of byte 9; bit 4 of that
\* byte (a limit-switch flag) is set as well.
DevStatusReply(d) ==
    << 42, 4, 6, 0, 129, 80 >> \o d.chan
        \o << 0, (IF d.homed THEN 4 ELSE 0) + 16, 0, 128 >>

\* The 6 byte message the device sends for a home command.
DevHomedReply == << 68, 4, 1, 0, 1, 80 >>

\* The 20 byte velocity reply: acceleration [12:16], max velocity [16:20].
DevVelReply(d) ==
    << 21, 4, 14, 0, 129, 80 >> \o d.chan \o ToBytesSigned(0)
        \o ToBytesSigned(d.acc) \o ToBytesSigned(d.vel)

\* The 12 byte position reply: channel [6:8], counts [8:12], reporting p.
DevPosReply(d, p) ==
    << 18, 4, 6, 0, 129, 80 >> \o d.chan \o ToBytesSigned(p)

\* The 20 byte move-completed message the device sends on its own.
DevMoveCompleted(d) ==
    << 100, 4, 14, 0, 129, 80 >> \o d.chan \o ToBytesSigned(d.target)
        \o << 0, 0, 0, 0 >> \o << 0, 4, 0, 128 >>

\* What the device appends to the host's receive buffer for frame f, when a
\* position query is answered with count p.
DevReply(f, d, p) ==
    CASE f = CmdReqInfo   -> DevInfoReply(d)
      [] f = CmdReqEnable -> DevEnableReply(d)
      [] f = CmdReqStatus -> DevStatusReply(d)
      [] f = CmdHome      -> DevHomedReply
      [] f = CmdReqVel    -> DevVelReply(d)
      [] f = CmdReqPos    -> DevPosReply(d, p)
      [] OTHER            -> << >>

\* The device after frame f; a device that does not obey keeps its enable
\* state, and stores half the requested velocity parameters.  A set-velocity
\* or move-absolute frame that lacks its channel bytes is ignored.
DevAfter(f, d, obey) ==
    CASE MsgId(f) = << 16, 2 >> ->
            IF obey THEN [d EXCEPT !.enable = f[4]] ELSE d
      [] f = CmdHome -> [d EXCEPT !.target = 0, !.homed = TRUE]
      [] IsSetVel(f) /\ Len(f) = 20 ->
            LET a == FromBytesSigned(SubSeq(f, 13, 16))
                v == FromBytesSigned(SubSeq(f, 17, 20))
            IN  IF obey THEN [d EXCEPT !.acc = a, !.vel = v]
                ELSE [d EXCEPT !.acc = a \div 2, !.vel = v \div 2]
      [] IsMoveAbs(f) /\ Len(f) = 12 ->
            [d EXCEPT !.target = FromBytesSigned(SubSeq(f, 9, 12)),
                      !.completions = Min(@ + 1, 2)]
      [] OTHER -> d

\* The counts a position reply may report.
Reports(d) == { d.target + o : o \in d.offsets }

(***************************************************************************)
(* State.                                                                  *)
(***************************************************************************)
VARIABLES
    self,       \* the Controller's attributes
    pc,         \* the statement the host executes next
    stack,      \* return labels of the methods being executed
    args,       \* parameters and locals of the methods being executed
    polls,      \* position queries made by the current settle-poll loop
    calls,      \* API calls made since the constructor returned
    port_open,  \* the serial port is open
    rx,         \* bytes received and not yet read (port.inWaiting() of them)
    dev,        \* the device
    hist        \* history of the current call, for stating properties

vars == << self, pc, stack, args, polls, calls, port_open, rx, dev, hist >>

NoArgs ==
    [ enable |-> FALSE, max_velocity |-> 0, acceleration |-> 0,
      move_deg |-> 0, relative |-> FALSE, block |-> FALSE ]

\* The attributes before __init__ has assigned any (attrs: those assigned).
NewController ==
    [ attrs |-> {}, model_number |-> << >>, firmware_v |-> 0,
      enable |-> FALSE, _homed |-> FALSE, ch_id_bytes |-> << >>,
      position_counts |-> 0, position_deg |-> 0,
      max_velocity |-> 0, acceleration |-> 0,
      _moving |-> FALSE, _target_position_deg |-> 0 ]

NewCall(name, obj) ==
    [ session |-> FALSE,   \* the constructor has returned
      call |-> name,       \* the API call being made, or made last
      entry |-> obj,       \* the attributes when it was entered
      outcome |-> "running",
      written |-> << >>,   \* frames written during the call
      reads |-> 0,         \* port.read calls made during the call
      moves |-> 0,         \* move-absolute frames written during the call
      quiet |-> FALSE,     \* no read and no position query since the last
                           \* move-absolute frame of the call
      settled |-> FALSE,   \* a settle-poll loop of _finish_move ended in it
      inflight |-> 0,      \* move-absolute frames written and not settled
      sent |-> << >>,      \* target of the last move-absolute frame written
      status |-> << >>,    \* homed flag of the status reply read at connect
      request |-> NoArgs,  \* the parameters the call was made with
      applied |-> << >>,   \* the last velocity request that was verified
      posreply |-> << >>,  \* the last response get_position_deg decoded
      short |-> FALSE ]    \* a read of _send returned fewer bytes than asked

\* A device with its stage at the home position when the port is opened.
Device(model, firmware, homed, offsets, chan, lossy) ==
    [ model |-> model, firmware |-> firmware, enable |-> 2,
      homed |-> homed, target |-> 0, vel |-> 0, acc |-> 0, completions |-> 0,
      chan |-> chan, offsets |-> offsets, lossy |-> lossy ]

Devices ==
    { Device(id[1], id[2], h, o, << 1, 0 >>, FALSE) :
        id \in { << ExpectedModel, ExpectedFirmware >>,
                 << OtherModel, ExpectedFirmware >>,
                 << ExpectedModel, ExpectedFirmware + 1 >> },
        h \in BOOLEAN, o \in Offsets }

\* Devices that report only positions inside the tolerance band of their
\* target: on the commanded count, or on it and at the band's upper edge.
SteadyDevices ==
    { Device(ExpectedModel, ExpectedFirmware, h, o, c, FALSE) :
        h \in BOOLEAN, o \in { { 0 }, { 0, 19 } },
        c \in { << 1, 0 >>, << 2, 0 >> } }

\* Devices by the state byte of their enable reply when the port is opened:
\* disabled, or neither of the two documented states.
EnableDevices ==
    { [Device(ExpectedModel, ExpectedFirmware, h, { 0 }, << 1, 0 >>, FALSE)
          EXCEPT !.enable = e] :
        h \in BOOLEAN, e \in { 2, 0 } }

\* Devices whose reply to a request may fail to arrive before the read of
\* _send times out.
LossyDevices ==
    { Device(ExpectedModel, ExpectedFirmware, h, { -20, 0 }, << 1, 0 >>, TRUE) :
        h \in BOOLEAN }

\* __init__ after the port is opened (line 21): about to call _get_info.
Start(devices) ==
    /\ self = NewController
    /\ pc = "get_info_w"
    /\ stack = << "init_23" >>
    /\ args = NoArgs
    /\ polls = 0
    /\ calls = 0
    /\ port_open = TRUE
    /\ rx = << >>
    /\ dev \in devices
    /\ hist = NewCall("__init__", NewController)

Init == Start(Devices)

(***************************************************************************)
(* Control: raising, returning, calling.                                   *)
(***************************************************************************)
\* An exception leaves every method being executed; out of the constructor
\* there is no session left to call.
Raise(kind, h) ==
    /\ pc' = IF h.session THEN "idle" ELSE "failed"
    /\ stack' = << >>
    /\ hist' = [h EXCEPT !.outcome = kind]

Return(h) ==
    /\ pc' = IF stack = << >> THEN "idle" ELSE Head(stack)
    /\ stack' = IF stack = << >> THEN << >> ELSE Tail(stack)
    /\ hist' = IF stack = << >> THEN [h EXCEPT !.outcome = "returned"] ELSE h

Goto(label, h) ==
    /\ pc' = label
    /\ stack' = stack
    /\ hist' = h

Call(method, ret, h) ==
    /\ pc' = method
    /\ stack' = << ret >> \o stack
    /\ hist' = h

(***************************************************************************)
(* _send (lines 38-47), in two steps: port.write, on which the device      *)
(* queues its reply, and port.read with the check of port.inWaiting().     *)
(***************************************************************************)
Wrote(h, f) ==
    [h EXCEPT !.written = Append(@, f),
              !.quiet = IF f = CmdReqPos THEN FALSE ELSE @]

DidRead(h) == [h EXCEPT !.reads = @ + 1, !.quiet = FALSE]

\* What may arrive for frame f before the read of _send returns: the
\* device's reply, or from a lossy device nothing.
Arrivals(f, d, p) ==
    { DevReply(f, d, p) } \cup (IF d.lossy THEN { << >> } ELSE {})

\* port.write(cmd); the device answers a position query with count p.
PortWrite(f, obey, p) ==
    /\ port_open
    /\ \E r \in Arrivals(f, dev, p) : rx' = rx \o r
    /\ dev' = DevAfter(f, dev, obey)

\* port.read(n): the n bytes asked for, or at the timeout the fewer that
\* arrived; and what is left in the buffer.
Response(n) == SubSeq(rx, 1, Min(n, Len(rx)))

Rest(n) == SubSeq(rx, Min(n, Len(rx)) + 1, Len(rx))

\* The history after the read of n bytes in _send.
DidRecv(h, n) == [DidRead(h) EXCEPT !.short = @ \/ Len(rx) < n]

(***************************************************************************)
(* _get_info (lines 49-65).                                                *)
(***************************************************************************)
GetInfoSend ==
    /\ pc = "get_info_w"
    /\ PortWrite(CmdReqInfo, TRUE, 0)
    /\ Goto("get_info_r", Wrote(hist, CmdReqInfo))
    /\ UNCHANGED << self, args, polls, calls, port_open >>

GetInfoRecv ==
    /\ pc = "get_info_r"
    /\ rx' = Rest(90)
    /\ IF Rest(90) # << >>
       THEN Raise("buffer_error", DidRecv(hist, 90)) /\ self' = self
       ELSE /\ self' = [self EXCEPT
                   !.model_number = Slice(Response(90), 10, 18),
                   !.firmware_v = FromBytesLittle(Slice(Response(90), 20, 24)),
                   !.attrs = @ \cup { "model_number", "firmware_v" }]
            /\ Return(DidRecv(hist, 90))
    /\ UNCHANGED << args, polls, calls, port_open, dev >>

(***************************************************************************)
(* __init__ (lines 22-36).                                                 *)
(***************************************************************************)
\* Mutant: the firmware assertion (line 24) is missing.
IdentityOk_ModelOnly(obj) == obj.model_number = ExpectedModel

\* The two assertions on the identity (lines 23-24).
IdentityOk(obj) ==
    /\ obj.model_number = ExpectedModel
    /\ obj.firmware_v = ExpectedFirmware

\* Lines 23-30: check the identity, then _set_enable(True).
ConstructorIdentity ==
    /\ pc = "init_23"
    /\ IF IdentityOk(self)
       THEN /\ Call("set_enable_w", "init_31", hist)
            /\ args' = [args EXCEPT !.enable = TRUE]
       ELSE /\ Raise("identity_error", hist)
            /\ args' = args
    /\ UNCHANGED << self, polls, calls, port_open, rx, dev >>

\* Line 31.
ConstructorStatus ==
    /\ pc = "init_31"
    /\ Call("get_homed_w", "init_32", hist)
    /\ UNCHANGED << self, args, polls, calls, port_open, rx, dev >>

\* Mutant: the constructor homes the stage whatever the status says.
ConstructorHome_Always ==
    /\ pc = "init_32"
    /\ Call("home_w", "init_34", hist)
    /\ UNCHANGED << self, args, polls, calls, port_open, rx, dev >>

\* Lines 32-33.
ConstructorHome ==
    /\ pc = "init_32"
    /\ IF ~self._homed
       THEN Call("home_w", "init_34", hist)
       ELSE Goto("init_34", hist)
    /\ UNCHANGED << self, args, polls, calls, port_open, rx, dev >>

\* Line 34.
ConstructorPosition ==
    /\ pc = "init_34"
    /\ Call("get_pos_w", "init_35", hist)
    /\ UNCHANGED << self, args, polls, calls, port_open, rx, dev >>

\* Line 35: _set_velocity_parameters(25, 25).
ConstructorVelocity ==
    /\ pc = "init_35"
    /\ Call("set_vel_146", "init_36", hist)
    /\ args' = [args EXCEPT !.max_velocity = Vel(250),
                            !.acceleration = Acc(2500)]
    /\ UNCHANGED << self, polls, calls, port_open, rx, dev >>

\* Line 36, and the constructor returns.
ConstructorDone ==
    /\ pc = "init_36"
    /\ self' = [self EXCEPT !._moving = FALSE,
                            !.attrs = @ \cup { "_moving" }]
    /\ Return([hist EXCEPT !.session = TRUE])
    /\ UNCHANGED << args, polls, calls, port_open, rx, dev >>

(***************************************************************************)
(* _get_enable (lines 67-77) and _set_enable (lines 79-89).                *)
(***************************************************************************)
GetEnableSend ==
    /\ pc = "get_enable_w"
    /\ PortWrite(CmdReqEnable, TRUE, 0)
    /\ Goto("get_enable_r", Wrote(hist, CmdReqEnable))
    /\ UNCHANGED << self, args, polls, calls, port_open >>

GetEnableRecv ==
    /\ pc = "get_enable_r"
    /\ rx' = Rest(6)
    /\ IF Rest(6) # << >>
       THEN Raise("buffer_error", DidRecv(hist, 6)) /\ self' = self
       ELSE IF Len(Response(6)) < 4
       THEN Raise("index_error", DidRecv(hist, 6)) /\ self' = self
       ELSE IF Response(6)[4] \notin { 1, 2 }
       THEN Raise("enable_error", DidRecv(hist, 6)) /\ self' = self
       ELSE /\ self' = [self EXCEPT !.enable = (Response(6)[4] = 1),
                                    !.attrs = @ \cup { "enable" }]
            /\ Return(DidRecv(hist, 6))
    /\ UNCHANGED << args, polls, calls, port_open, dev >>

\* Lines 80-85: the set frame; the device may not obey it.
SetEnableSend ==
    /\ pc = "set_enable_w"
    /\ \E obey \in BOOLEAN : PortWrite(CmdSetEnable(args.enable), obey, 0)
    /\ Goto("set_enable_c", Wrote(hist, CmdSetEnable(args.enable)))
    /\ UNCHANGED << self, args, polls, calls, port_open >>

\* The check of _send for a frame with no response, then line 86's call.
SetEnableCheck ==
    /\ pc = "set_enable_c"
    /\ IF rx # << >>
       THEN Raise("buffer_error", hist)
       ELSE Call("get_enable_w", "set_enable_86", hist)
    /\ UNCHANGED << self, args, polls, calls, port_open, rx, dev >>

\* Mutant: the enable state read back is not compared with the request.
SetEnableVerify_Skips ==
    /\ pc = "set_enable_86"
    /\ Return(hist)
    /\ UNCHANGED << self, args, polls, calls, port_open, rx, dev >>

\* Line 86: assert self._get_enable() == enable.
SetEnableVerify ==
    /\ pc = "set_enable_86"
    /\ IF self.enable # args.enable
       THEN Raise("verify_error", hist)
       ELSE Return(hist)
    /\ UNCHANGED << self, args, polls, calls, port_open, rx, dev >>

(***************************************************************************)
(* _get_homed_status (lines 91-99).                                        *)
(***************************************************************************)
\* bool(status_bits[1] & 4) of the reply's bytes [8:].
HomedBit(response) == (response[10] \div 4) % 2 = 1

GetHomedSend ==
    /\ pc = "get_homed_w"
    /\ PortWrite(CmdReqStatus, TRUE, 0)
    /\ Goto("get_homed_r", Wrote(hist, CmdReqStatus))
    /\ UNCHANGED << self, args, polls, calls, port_open >>

GetHomedRecv ==
    /\ pc = "get_homed_r"
    /\ rx' = Rest(12)
    /\ IF Rest(12) # << >>
       THEN Raise("buffer_error", DidRecv(hist, 12)) /\ self' = self
       ELSE IF Len(Response(12)) < 10
       THEN Raise("index_error", DidRecv(hist, 12)) /\ self' = self
       ELSE /\ self' = [self EXCEPT !._homed = HomedBit(Response(12)),
                                    !.attrs = @ \cup { "_homed" }]
            /\ Return([DidRecv(hist, 12) EXCEPT
                        !.status = << HomedBit(Response(12)) >>])
    /\ UNCHANGED << args, polls, calls, port_open, dev >>

(***************************************************************************)
(* get_position_deg (lines 174-185).                                       *)
(***************************************************************************)
\* The device answers with any count it may report.
GetPositionSend ==
    /\ pc = "get_pos_w"
    /\ \E p \in Reports(dev) : PortWrite(CmdReqPos, TRUE, p)
    /\ Goto("get_pos_r", Wrote(hist, CmdReqPos))
    /\ UNCHANGED << self, args, polls, calls, port_open >>

\* Lines 179-182: the attributes decoded from a position response.
DecodePosition(obj, response) ==
    [obj EXCEPT
        !.ch_id_bytes = Slice(response, 6, 8),
        !.position_counts = FromBytesLittle(Slice(response, 8, 12)),
        !.position_deg = CountsToDeg(FromBytesLittle(Slice(response, 8, 12))),
        !.attrs = @ \cup { "ch_id_bytes", "position_counts", "position_deg" }]

GetPositionRecv ==
    /\ pc = "get_pos_r"
    /\ rx' = Rest(12)
    /\ IF Rest(12) # << >>
       THEN Raise("buffer_error", DidRecv(hist, 12)) /\ self' = self
       ELSE /\ self' = DecodePosition(self, Response(12))
            /\ Return([DidRecv(hist, 12) EXCEPT !.posreply = Response(12)])
    /\ UNCHANGED << args, polls, calls, port_open, dev >>

(***************************************************************************)
(* _home (lines 101-125).                                                  *)
(***************************************************************************)
HomeSend ==
    /\ pc = "home_w"
    /\ PortWrite(CmdHome, TRUE, 0)
    /\ Goto("home_r", Wrote(hist, CmdHome))
    /\ UNCHANGED << self, args, polls, calls, port_open >>

\* Line 109: the 6 bytes are read and dropped; the loop starts.
HomeRecv ==
    /\ pc = "home_r"
    /\ rx' = Rest(6)
    /\ IF Rest(6) # << >>
       THEN Raise("buffer_error", DidRecv(hist, 6)) /\ polls' = polls
       ELSE Goto("home_poll", DidRecv(hist, 6)) /\ polls' = 0
    /\ UNCHANGED << self, args, calls, port_open, dev >>

\* Line 118, one iteration of the loop.
HomePoll ==
    /\ pc = "home_poll"
    /\ polls < MaxPolls
    /\ polls' = polls + 1
    /\ Call("get_pos_w", "home_120", hist)
    /\ UNCHANGED << self, args, calls, port_open, rx, dev >>

\* Line 120: the loop's exit test.
HomeSettled(obj) == Round2IsZero(obj.position_deg)

HomeTest ==
    /\ pc = "home_120"
    /\ IF HomeSettled(self)
       THEN Return(hist) /\ polls' = 0
       ELSE Goto("home_poll", hist) /\ polls' = polls
    /\ UNCHANGED << self, args, calls, port_open, rx, dev >>

(***************************************************************************)
(* _get_velocity_parameters (lines 127-139).                               *)
(***************************************************************************)
\* counts / EncCnt_per_deg_per_s2, in ten-thousandths of a count.
AccFromCounts(c) == Min(c, 2^17) * 10000

\* Mutant: int(...) without round(...), which truncates.
AccToCounts_Truncates(x) == x \div 10000

\* int(round(acceleration * EncCnt_per_deg_per_s2)).
AccToCounts(x) == RoundHalfEven(x, 10000)

GetVelocitySend ==
    /\ pc = "get_vel_w"
    /\ PortWrite(CmdReqVel, TRUE, 0)
    /\ Goto("get_vel_r", Wrote(hist, CmdReqVel))
    /\ UNCHANGED << self, args, polls, calls, port_open >>

\* Lines 132-135.
DecodeVelocity(obj, response) ==
    [obj EXCEPT
        !.max_velocity = FromCounts(FromBytesLittle(Slice(response, 16, 20))),
        !.acceleration =
            AccFromCounts(FromBytesLittle(Slice(response, 12, 16))),
        !.attrs = @ \cup { "max_velocity", "acceleration" }]

GetVelocityRecv ==
    /\ pc = "get_vel_r"
    /\ rx' = Rest(20)
    /\ IF Rest(20) # << >>
       THEN Raise("buffer_error", DidRecv(hist, 20)) /\ self' = self
       ELSE /\ self' = DecodeVelocity(self, Response(20))
            /\ Return(DidRecv(hist, 20))
    /\ UNCHANGED << args, polls, calls, port_open, dev >>

(***************************************************************************)
(* _set_velocity_parameters (lines 141-165).                               *)
(***************************************************************************)
\* Mutant: the upper bound of the max velocity is not checked.
VelocityInRange_NoUpper(max_velocity, acceleration) ==
    /\ 0 <= max_velocity
    /\ 0 <= acceleration /\ acceleration <= Acc(2500)

\* Lines 146-147.
VelocityInRange(max_velocity, acceleration) ==
    /\ 0 <= max_velocity /\ max_velocity <= Vel(250)
    /\ 0 <= acceleration /\ acceleration <= Acc(2500)

\* Lines 146-159: the range check, the conversion and the set frame; the
\* device may store something else than it was sent.
SetVelocitySend ==
    /\ pc = "set_vel_146"
    /\ IF ~VelocityInRange(args.max_velocity, args.acceleration)
       THEN /\ Raise("range_error", hist)
            /\ UNCHANGED << rx, dev >>
       ELSE LET f == CmdSetVel(self.ch_id_bytes,
                               AccToCounts(args.acceleration),
                               ToCounts(args.max_velocity))
            IN  /\ \E obey \in BOOLEAN : PortWrite(f, obey, 0)
                /\ Goto("set_vel_c",
                        [Wrote(hist, f) EXCEPT !.applied = << >>])
    /\ UNCHANGED << self, args, polls, calls, port_open >>

SetVelocityCheck ==
    /\ pc = "set_vel_c"
    /\ IF rx # << >>
       THEN Raise("buffer_error", hist)
       ELSE Call("get_vel_w", "set_vel_161", hist)
    /\ UNCHANGED << self, args, polls, calls, port_open, rx, dev >>

\* round(self.max_velocity, 1) == max_velocity and the same for the
\* acceleration (lines 161-162).
VelocityVerified(obj, max_velocity, acceleration) ==
    /\ RoundHalfEven(obj.max_velocity, Vel(1)) * Vel(1) = max_velocity
    /\ RoundHalfEven(obj.acceleration, Acc(10)) * Acc(10) = acceleration

SetVelocityVerify ==
    /\ pc = "set_vel_161"
    /\ IF VelocityVerified(self, args.max_velocity, args.acceleration)
       THEN Return([hist EXCEPT
                !.applied = << args.max_velocity, args.acceleration >>])
       ELSE Raise("verify_error", hist)
    /\ UNCHANGED << self, args, polls, calls, port_open, rx, dev >>

(***************************************************************************)
(* identify (lines 167-172).                                               *)
(***************************************************************************)
IdentifySend ==
    /\ pc = "identify_w"
    /\ PortWrite(CmdIdentify, TRUE, 0)
    /\ Goto("identify_c", Wrote(hist, CmdIdentify))
    /\ UNCHANGED << self, args, polls, calls, port_open >>

IdentifyCheck ==
    /\ pc = "identify_c"
    /\ IF rx # << >>
       THEN Raise("buffer_error", hist)
       ELSE Return(hist)
    /\ UNCHANGED << self, args, polls, calls, port_open, rx, dev >>

(***************************************************************************)
(* _finish_move (lines 187-209).                                           *)
(***************************************************************************)
\* Line 188.
FinishMoveEnter ==
    /\ pc = "finish_188"
    /\ IF ~self._moving
       THEN Return(hist)
       ELSE Goto("finish_191", hist)
    /\ UNCHANGED << self, args, polls, calls, port_open, rx, dev >>

\* Line 191: port.read(20) returns the 20 bytes, or at its timeout the
\* fewer that arrived; they are dropped unread.  The loop starts.
FinishMoveRead ==
    /\ pc = "finish_191"
    /\ rx' = Rest(Min(20, Len(rx)))
    /\ polls' = 0
    /\ Goto("finish_poll", DidRead(hist))
    /\ UNCHANGED << self, args, calls, port_open, dev >>

\* Line 200, one iteration of the loop.
FinishMovePoll ==
    /\ pc = "finish_poll"
    /\ polls < MaxPolls
    /\ polls' = polls + 1
    /\ Call("get_pos_w", "finish_203", hist)
    /\ UNCHANGED << self, args, calls, port_open, rx, dev >>

\* Mutant: the lower edge of the band is not tested.
WithinTolerance_UpperOnly(obj) ==
    obj.position_deg <= obj._target_position_deg + _move_tol_deg

\* Lines 202-203: the loop's exit test.
WithinTolerance(obj) ==
    /\ obj._target_position_deg - _move_tol_deg <= obj.position_deg
    /\ obj.position_deg <= obj._target_position_deg + _move_tol_deg

\* Lines 203-209.
FinishMoveTest ==
    /\ pc = "finish_203"
    /\ IF WithinTolerance(self)
       THEN /\ self' = [self EXCEPT !._moving = FALSE]
            /\ polls' = 0
            /\ Return([hist EXCEPT !.settled = TRUE, !.inflight = 0])
       ELSE /\ self' = self
            /\ polls' = polls
            /\ Goto("finish_poll", hist)
    /\ UNCHANGED << args, calls, port_open, rx, dev >>

(***************************************************************************)
(* move_deg (lines 211-228).                                               *)
(***************************************************************************)
\* Line 212.
MoveEnter ==
    /\ pc = "move_212"
    /\ IF self._moving
       THEN Call("finish_188", "move_216", hist)
       ELSE Goto("move_216", hist)
    /\ UNCHANGED << self, args, polls, calls, port_open, rx, dev >>

\* Line 216: the absolute target.
MoveTarget(obj, a) ==
    IF a.relative THEN obj.position_deg + a.move_deg ELSE a.move_deg

\* Mutant: the range ends at 360 degrees.
TargetInRange_UpTo360(t) == 0 <= t /\ t <= Deg(36000)

\* Line 217: assert 0 <= move_deg <= 359.99.
TargetInRange(t) == 0 <= t /\ t <= Deg(35999)

\* Mutant: the frame is written before the range is checked.
MoveSend_WritesFirst ==
    /\ pc = "move_216"
    /\ LET t == MoveTarget(self, args)
           f == CmdMoveAbs(self.ch_id_bytes, ToCounts(t))
           h == [Wrote(hist, f) EXCEPT
                    !.moves = @ + 1, !.quiet = TRUE,
                    !.inflight = Min(@ + 1, 2), !.sent = << t >>]
       IN  /\ PortWrite(f, TRUE, 0)
           /\ args' = [args EXCEPT !.move_deg = t]
           /\ IF ~TargetInRange(t)
              THEN Raise("range_error", h)
              ELSE Goto("move_c", h)
    /\ UNCHANGED << self, polls, calls, port_open >>

\* Lines 216-223: the target, the range check and the move frame.
MoveSend ==
    /\ pc = "move_216"
    /\ LET t == MoveTarget(self, args)
           f == CmdMoveAbs(self.ch_id_bytes, ToCounts(t))
       IN  IF ~TargetInRange(t)
           THEN /\ Raise("range_error", hist)
                /\ UNCHANGED << rx, dev >>
                /\ args' = [args EXCEPT !.move_deg = t]
           ELSE /\ PortWrite(f, TRUE, 0)
                /\ args' = [args EXCEPT !.move_deg = t]
                /\ Goto("move_c",
                        [Wrote(hist, f) EXCEPT
                            !.moves = @ + 1, !.quiet = TRUE,
                            !.inflight = Min(@ + 1, 2), !.sent = << t >>])
    /\ UNCHANGED << self, polls, calls, port_open >>

\* Mutant: every move blocks.
Blocking_Always(a) == TRUE

\* Line 226: if block.
Blocking(a) == a.block

\* The check of _send, then lines 224-228.
MoveCheck ==
    /\ pc = "move_c"
    /\ IF rx # << >>
       THEN Raise("buffer_error", hist) /\ self' = self
       ELSE /\ self' = [self EXCEPT
                   !._moving = TRUE,
                   !._target_position_deg = args.move_deg,
                   !.attrs = @ \cup { "_target_position_deg" }]
            /\ IF Blocking(args)
               THEN Call("finish_188", "move_228", hist)
               ELSE Return(hist)
    /\ UNCHANGED << args, polls, calls, port_open, rx, dev >>

\* Line 228, after the blocking _finish_move.
MoveDone ==
    /\ pc = "move_228"
    /\ Return(hist)
    /\ UNCHANGED << self, args, polls, calls, port_open, rx, dev >>

(***************************************************************************)
(* The device's move-completed message, sent on its own at any time after  *)
(* a move-absolute frame.                                                  *)
(***************************************************************************)
DeviceMoveCompleted ==
    /\ port_open
    /\ pc # "failed"
    /\ dev.completions > 0
    /\ rx' = rx \o DevMoveCompleted(dev)
    /\ dev' = [dev EXCEPT !.completions = @ - 1]
    /\ UNCHANGED << self, pc, stack, args, polls, calls, port_open, hist >>

(***************************************************************************)
(* The caller: API calls on the session the constructor returned.          *)
(***************************************************************************)
AbsoluteTargets == { Deg(35999), Deg(36000) }

RelativeMoves == { Deg(1000), Deg(-1000) }

MoveRequests ==
    { [NoArgs EXCEPT !.move_deg = m, !.relative = FALSE, !.block = b] :
        m \in AbsoluteTargets, b \in BOOLEAN }
    \cup
    { [NoArgs EXCEPT !.move_deg = m, !.relative = TRUE, !.block = TRUE] :
        m \in RelativeMoves }

\* Velocity requests in tenths, inside [0, 25] and outside it.
VelocityRequests ==
    { [NoArgs EXCEPT !.max_velocity = Vel(r[1]), !.acceleration = Acc(r[2])] :
        r \in { << d, 10 * d >> : d \in 0..250 }
              \cup { << d, 10 * (250 - d) >> : d \in 0..250 }
              \cup { << 251, 2500 >>, << -1, 0 >>, << 250, -10 >>,
                     << 0, 2510 >> } }

\* The relative moves of the test in __main__ (lines 249-253).
MainRelativeMoves ==
    << Deg(1000), Deg(1000), Deg(1000), Deg(-1000), Deg(-1000), Deg(-1000) >>

StartHist(name, a) ==
    [NewCall(name, self) EXCEPT
        !.session = hist.session, !.inflight = hist.inflight,
        !.sent = hist.sent, !.status = hist.status,
        !.applied = hist.applied, !.posreply = hist.posreply,
        !.request = a]

\* The caller enters a method of the session.
Enter(name, label, a) ==
    /\ pc = "idle"
    /\ port_open
    /\ calls' = calls + 1
    /\ pc' = label
    /\ stack' = << >>
    /\ args' = a
    /\ polls' = 0
    /\ hist' = StartHist(name, a)
    /\ UNCHANGED << self, port_open, rx, dev >>

StartCall(name, label, a) ==
    /\ calls < MaxCalls
    /\ Enter(name, label, a)

CallMoveDeg == \E a \in MoveRequests : StartCall("move_deg", "move_212", a)

CallFinishMove == StartCall("_finish_move", "finish_188", NoArgs)

CallGetPosition == StartCall("get_position_deg", "get_pos_w", NoArgs)

CallGetVelocity == StartCall("_get_velocity_parameters", "get_vel_w", NoArgs)

CallIdentify == StartCall("identify", "identify_w", NoArgs)

\* Mutant: close settles a pending move before it closes the port.
Close_FinishesFirst ==
    /\ pc = "idle"
    /\ port_open
    /\ calls < MaxCalls
    /\ calls' = calls + 1
    /\ port_open' = FALSE
    /\ pc' = "closed"
    /\ self' = [self EXCEPT !._moving = FALSE]
    /\ hist' = [StartHist("close", NoArgs) EXCEPT
                    !.outcome = "returned", !.settled = self._moving]
    /\ UNCHANGED << stack, args, polls, rx, dev >>

\* close (lines 230-234).
Close ==
    /\ pc = "idle"
    /\ port_open
    /\ calls < MaxCalls
    /\ calls' = calls + 1
    /\ port_open' = FALSE
    /\ pc' = "closed"
    /\ hist' = [StartHist("close", NoArgs) EXCEPT !.outcome = "returned"]
    /\ UNCHANGED << self, stack, args, polls, rx, dev >>

CallSetEnable ==
    \E e \in BOOLEAN :
        StartCall("_set_enable", "set_enable_w", [NoArgs EXCEPT !.enable = e])

\* The caller sets the velocity profile as its first call on the session.
CallSetVelocity ==
    \E a \in VelocityRequests :
        /\ calls = 0
        /\ Enter("_set_velocity_parameters", "set_vel_146", a)

\* Lines 249-253: the next relative move of the test, each a blocking
\* move_deg(m); an exception of the previous one ends the program.
CallMainRelativeMove ==
    /\ calls < Len(MainRelativeMoves)
    /\ hist.outcome = "returned"
    /\ Enter("move_deg", "move_212",
             [NoArgs EXCEPT !.move_deg = MainRelativeMoves[calls + 1],
                            !.relative = TRUE, !.block = TRUE])

(***************************************************************************)
(* The session: the constructor, then any API calls.                       *)
(***************************************************************************)
\* The steps of the constructor and of the methods it calls.
Connect ==
    \/ GetInfoSend \/ GetInfoRecv
    \/ ConstructorIdentity \/ ConstructorStatus \/ ConstructorHome
    \/ ConstructorPosition \/ ConstructorVelocity \/ ConstructorDone
    \/ GetEnableSend \/ GetEnableRecv
    \/ SetEnableSend \/ SetEnableCheck \/ SetEnableVerify
    \/ GetHomedSend \/ GetHomedRecv
    \/ HomeSend \/ HomeRecv \/ HomePoll \/ HomeTest
    \/ GetPositionSend \/ GetPositionRecv
    \/ GetVelocitySend \/ GetVelocityRecv
    \/ SetVelocitySend \/ SetVelocityCheck \/ SetVelocityVerify

\* The steps of move_deg and _finish_move, and the device's own message.
Move ==
    \/ FinishMoveEnter \/ FinishMoveRead \/ FinishMovePoll \/ FinishMoveTest
    \/ MoveEnter \/ MoveSend \/ MoveCheck \/ MoveDone
    \/ DeviceMoveCompleted

Next ==
    \/ Connect
    \/ Move
    \/ IdentifySend \/ IdentifyCheck
    \/ CallMoveDeg \/ CallFinishMove \/ CallGetPosition
    \/ CallIdentify \/ Close

Spec == Init /\ [][Next]_vars

\* A session on which the velocity profile is set, then read back.
NextVel == Connect \/ CallSetVelocity \/ CallGetVelocity

SpecVel == Init /\ [][NextVel]_vars

\* The relative moves of the test in __main__, on a steady device.
InitRel == Start(SteadyDevices)

NextRel == Connect \/ Move \/ CallMainRelativeMove

SpecRel == InitRel /\ [][NextRel]_vars

\* Velocity profiles whose acceleration is given to two decimal places
\* (12.00 to 13.00 degrees/s^2 and the two ends of the range).
FineRequests ==
    { [NoArgs EXCEPT !.max_velocity = Vel(d), !.acceleration = Acc(h)] :
        d \in { 0, 123, 250 }, h \in { 0, 2500 } \cup 1200..1300 }

CallSetVelocityFine ==
    \E a \in FineRequests :
        /\ calls = 0
        /\ Enter("_set_velocity_parameters", "set_vel_146", a)

\* A session on which the velocity profile is set to two decimal places.
NextFine == Connect \/ CallSetVelocityFine

SpecFine == Init /\ [][NextFine]_vars

\* Devices that report the commanded count from the first position query
\* after a command on.
SettledDevices ==
    { Device(ExpectedModel, ExpectedFirmware, h, { 0 }, << 1, 0 >>, FALSE) :
        h \in BOOLEAN }

\* The statements of the host: once started, a call runs on.
HostStep ==
    \/ Connect
    \/ FinishMoveEnter \/ FinishMoveRead \/ FinishMovePoll \/ FinishMoveTest
    \/ MoveEnter \/ MoveSend \/ MoveCheck \/ MoveDone

\* A session of moves on a settled device: the host runs on, and the device
\* sends the move-completed message it owes.
InitLive == Start(SettledDevices)

NextLive == Connect \/ Move \/ CallMoveDeg

SpecLive ==
    /\ InitLive
    /\ [][NextLive]_vars
    /\ WF_vars(HostStep)
    /\ WF_vars(DeviceMoveCompleted)

\* A session on which the channel is enabled and disabled.
InitEnable == Start(EnableDevices)

NextEnable == Connect \/ CallSetEnable

SpecEnable == InitEnable /\ [][NextEnable]_vars

\* A session on a device whose replies may fail to arrive in time.
InitLossy == Start(LossyDevices)

SpecLossy == InitLossy /\ [][Next]_vars

(***************************************************************************)
(* Properties.                                                             *)
(***************************************************************************)
Near(x, t) == Abs(x - t) <= Deg(1)

MoveFrames(w) == { i \in 1..Len(w) : IsMoveAbs(w[i]) }

\* C1: a move-absolute frame is written only when no earlier move-absolute
\* command is unsettled: no two are ever in flight.
C1_OneMoveInFlight == hist.inflight <= 1

\* A normal return of move_deg(block=True) or _finish_move leaves _moving
\* False and the last decoded position within 0.01 degree of the target of
\* the last move-absolute frame written.
C2_EveryReturnSettled ==
    ( /\ hist.outcome = "returned"
      /\ \/ hist.call = "move_deg" /\ hist.request.block
         \/ hist.call = "_finish_move" )
    => /\ ~self._moving
       /\ hist.sent # << >> => Near(self.position_deg, hist.sent[1])

\* The same of the returns that follow a settle-poll loop.
C2_LoopReturnSettled ==
    ( /\ hist.outcome = "returned"
      /\ \/ hist.call = "move_deg" /\ hist.request.block
         \/ hist.call = "_finish_move" /\ hist.entry._moving )
    => /\ ~self._moving
       /\ hist.sent # << >>
       /\ Near(self.position_deg, hist.sent[1])

\* _moving goes from True to False only in the exit test of a settle-poll
\* loop, on a position within 0.01 degree of the target.
C2_StopsOnlyInTolerance ==
    (self._moving /\ ~self'._moving)
    => /\ pc = "finish_203"
       /\ self'.position_deg = self.position_deg
       /\ Near(self.position_deg, hist.sent[1])

\* C2, as claimed: whenever move_deg(block=True) or _finish_move returns
\* normally, _moving is False and the last decoded position is within 0.01
\* degree of the target of the last move-absolute command transmitted; and
\* _moving goes from True to False only at the end of a settle-poll loop that
\* observed such a position.
C2_AsClaimed ==
    [](C2_EveryReturnSettled) /\ [][C2_StopsOnlyInTolerance]_vars

\* C2, amended: whenever move_deg(block=True) returns normally, or
\* _finish_move returns normally after it was entered with _moving True,
\* _moving is False and the last decoded position is within 0.01 degree of
\* the target of the last move-absolute command transmitted; and _moving goes
\* from True to False only at the end of a settle-poll loop that observed
\* such a position.
C2_SettleLoopEndsInTolerance ==
    [](C2_LoopReturnSettled) /\ [][C2_StopsOnlyInTolerance]_vars

C2_Witness ==
    /\ hist.outcome = "returned"
    /\ hist.call = "_finish_move"
    /\ hist.entry._moving
    /\ self.position_deg # hist.sent[1]

\* C3: from a settled position of 0 degrees, the three blocking move_deg(10)
\* and the three blocking move_deg(-10) of the test all pass the range check,
\* and the last decoded position is within 0.01 degree of 30 degrees after
\* the third and of 0 degrees after the sixth, on every device that ends each
\* settle-poll loop inside the tolerance band of that move's target.
C3_RelativeMovesAccumulate ==
    (hist.session /\ hist.call = "move_deg") =>
        /\ hist.outcome # "range_error"
        /\ (hist.outcome = "returned" /\ calls = 3) =>
              Near(self.position_deg, Deg(3000))
        /\ (hist.outcome = "returned" /\ calls = 6) =>
              Near(self.position_deg, Deg(0))

\* C4: a move-absolute frame is written only for a computed target (the last
\* queried position plus the amount when relative, the amount otherwise) in
\* [0, 359.99], and carries that target in counts, rounded to the nearest.
C4_MoveFramesInRange ==
    /\ \A i \in MoveFrames(hist.written) :
          /\ hist.call = "move_deg"
          /\ hist.sent # << >>
          /\ 0 <= hist.sent[1] /\ hist.sent[1] <= Deg(35999)
          /\ 2 * Abs(1000 * FromBytesSigned(SubSeq(hist.written[i], 9, 12))
                     - hist.sent[1]) <= 1000
    /\ pc = "move_c" =>
          /\ MoveFrames(hist.written) = { Len(hist.written) }
          /\ hist.sent[1] = IF hist.request.relative
                            THEN self.position_deg + hist.request.move_deg
                            ELSE hist.request.move_deg

C4_Witness ==
    /\ pc = "move_c"
    /\ hist.request.relative
    /\ hist.sent[1] > 0
    /\ hist.sent[1] % 1000 # 0

RejectedMove == hist.call = "move_deg" /\ hist.outcome = "range_error"

SameMotionState(a, b) ==
    /\ a.position_counts = b.position_counts
    /\ a.position_deg = b.position_deg
    /\ a._target_position_deg = b._target_position_deg
    /\ a._moving = b._moving

\* C5, as claimed: a move_deg call whose target is out of range writes and
\* reads nothing and leaves position, target and motion state as they were,
\* also when a non-blocking move is pending.
C5_RejectedWithoutIO ==
    RejectedMove =>
        /\ hist.written = << >>
        /\ hist.reads = 0
        /\ SameMotionState(self, hist.entry)

\* C5, amended: a move_deg call whose target is out of range writes no
\* move-absolute frame.  When no move is pending at its entry it writes and
\* reads nothing and leaves position, target and motion state as they were;
\* when a non-blocking move is pending it first runs that move's settle-poll
\* loop to its end, which leaves _moving False.
C5_RejectedBeforeOwnIO ==
    RejectedMove =>
        /\ hist.moves = 0
        /\ ~hist.entry._moving =>
              /\ hist.written = << >>
              /\ hist.reads = 0
              /\ SameMotionState(self, hist.entry)
        /\ hist.entry._moving => hist.settled /\ ~self._moving

C5_Witness ==
    /\ RejectedMove
    /\ ~hist.entry._moving
    /\ hist.request.relative

Count(w, f) == Cardinality({ i \in 1..Len(w) : w[i] = f })

\* C6: a connect against a device that reports homed=false sends exactly
\* one home command, and when the constructor returns the session's homed
\* status is true and the last decoded position rounds to 0.00 degrees.
C6_ConnectHomes ==
    ( /\ hist.call = "__init__"
      /\ hist.outcome = "returned"
      /\ hist.status = << FALSE >> )
    => /\ Count(hist.written, CmdHome) = 1
       /\ self._homed
       /\ Round2IsZero(self.position_deg)

\* C7: if the identity read at connect has another model code or firmware
\* version than expected, the connect fails right after the identity request
\* and no further frame is written.
C7_IdentityMismatchStops ==
    ( /\ hist.call = "__init__"
      /\ "model_number" \in self.attrs
      /\ dev.model # ExpectedModel \/ dev.firmware # ExpectedFirmware )
    => /\ hist.written = << CmdReqInfo >>
       /\ pc \in { "init_23", "failed" }
       /\ pc = "failed" => hist.outcome = "identity_error"

C7_Witness ==
    /\ pc = "failed"
    /\ hist.outcome = "identity_error"
    /\ self.model_number = ExpectedModel
    /\ self.firmware_v # ExpectedFirmware

RequestOutOfRange ==
    \/ hist.request.max_velocity < 0
    \/ hist.request.max_velocity > Vel(250)
    \/ hist.request.acceleration < 0
    \/ hist.request.acceleration > Acc(2500)

\* C8: a set-velocity request with a max velocity or an acceleration outside
\* [0, 25] is rejected before any frame is sent: nothing is written or read
\* and the stored velocity profile is unchanged.
C8_VelocityRejectedWithoutIO ==
    (hist.call = "_set_velocity_parameters" /\ RequestOutOfRange)
    => /\ hist.written = << >>
       /\ hist.reads = 0
       /\ self.max_velocity = hist.entry.max_velocity
       /\ self.acceleration = hist.entry.acceleration
       /\ hist.outcome \in { "running", "range_error" }
       /\ pc \in { "set_vel_146", "idle" }

C8_Witness ==
    /\ hist.call = "_set_velocity_parameters"
    /\ hist.outcome = "range_error"
    /\ hist.request.max_velocity > Vel(250)

\* The device holds the counts that set-velocity frame f carries.
StoredAsSent(f) ==
    /\ IsSetVel(f)
    /\ dev.acc = FromBytesSigned(SubSeq(f, 13, 16))
    /\ dev.vel = FromBytesSigned(SubSeq(f, 17, 20))

\* x rounds to r at one decimal place, a tenth being `tenth` in x's unit.
RoundsTo(x, r, tenth) == 2 * Abs(x - r) <= tenth

\* C9: for a max velocity and an acceleration in [0, 25] given to one
\* decimal place, when the device stores and returns the counts it was sent,
\* the values read back round to the requested ones at one decimal place, the
\* verification of the set operation succeeds, and a following get returns
\* the requested pair to one decimal place.
C9_VelocityRoundTrip ==
    /\ ( /\ pc = "set_vel_161"
         /\ StoredAsSent(hist.written[Len(hist.written) - 1]) )
       => /\ RoundsTo(self.max_velocity, args.max_velocity, Vel(1))
          /\ RoundsTo(self.acceleration, args.acceleration, Acc(10))
    /\ hist.outcome = "verify_error"
       => ~StoredAsSent(hist.written[Len(hist.written) - 1])
    /\ ( /\ hist.call = "_get_velocity_parameters"
         /\ hist.outcome = "returned"
         /\ hist.applied # << >> )
       => /\ RoundsTo(self.max_velocity, hist.applied[1], Vel(1))
          /\ RoundsTo(self.acceleration, hist.applied[2], Acc(10))

C9_Witness ==
    /\ hist.call = "_get_velocity_parameters"
    /\ hist.outcome = "returned"
    /\ hist.applied # << >>
    /\ hist.applied[1] # Vel(250)
    /\ self.max_velocity # hist.applied[1]
    /\ self.acceleration # hist.applied[2]

\* C10: when move_deg(block=False) returns normally, _moving is True, the
\* target is the computed absolute target, exactly one move-absolute frame
\* was written for the call, and since that frame nothing was read and no
\* position query was sent; a settle-poll loop runs only in move_deg and
\* _finish_move.
C10_NonBlockingReturnsIssued ==
    /\ ( /\ hist.call = "move_deg"
         /\ ~hist.request.block
         /\ hist.outcome = "returned" )
       => /\ self._moving
          /\ self._target_position_deg = hist.sent[1]
          /\ hist.sent[1] = IF hist.request.relative
                            THEN self.position_deg + hist.request.move_deg
                            ELSE hist.request.move_deg
          /\ Cardinality(MoveFrames(hist.written)) = 1
          /\ IsMoveAbs(hist.written[Len(hist.written)])
          /\ hist.quiet
          /\ hist.inflight >= 1
    /\ pc \in { "finish_191", "finish_poll", "finish_203" }
       => hist.call \in { "move_deg", "_finish_move" }

C10_Witness ==
    /\ hist.call = "move_deg"
    /\ ~hist.request.block
    /\ hist.outcome = "returned"
    /\ hist.entry._moving

\* C11: close can be called in any state of the session, also while a
\* non-blocking move is pending: it writes no frame, reads nothing, does not
\* run the settle-poll loop (the attributes and the receive buffer stay as
\* they were, _moving included) and releases the port.
C11_CloseOnlyReleases ==
    hist.call = "close" =>
        /\ hist.outcome = "returned"
        /\ hist.written = << >>
        /\ hist.reads = 0
        /\ ~hist.settled
        /\ self = hist.entry
        /\ ~port_open
        /\ pc = "closed"

C11_Witness ==
    /\ hist.call = "close"
    /\ hist.entry._moving
    /\ hist.inflight = 1
    /\ ~port_open

\* The frames of a connect, in order, when the status reply read homed.
ConnectOrder(w, homed) ==
    LET n == Len(w)
    IN  /\ n >= 7
        /\ SubSeq(w, 1, 4)
             = << CmdReqInfo, CmdSetEnable(TRUE), CmdReqEnable, CmdReqStatus >>
        /\ IF homed
           THEN n = 7
           ELSE /\ n >= 9
                /\ w[5] = CmdHome
                /\ \A i \in 6..(n - 3) : w[i] = CmdReqPos
        /\ w[n - 2] = CmdReqPos
        /\ IsSetVel(w[n - 1])
        /\ w[n] = CmdReqVel

\* C12: in every successful connect the frames are written in the order
\* identity request, set-enable, get-enable, status request, then a home
\* command followed by position queries if and only if the status reply
\* reports not homed, then a position query, set-velocity and get-velocity;
\* _moving is False when the constructor returns, and no move-absolute frame
\* is written during connect.
C12_ConnectOrder ==
    /\ (hist.call = "__init__" /\ hist.outcome = "returned") =>
          /\ hist.status # << >>
          /\ ConnectOrder(hist.written, hist.status[1])
          /\ "_moving" \in self.attrs
          /\ ~self._moving
    /\ hist.call = "__init__" => MoveFrames(hist.written) = {}

C12_Witness ==
    /\ hist.call = "__init__"
    /\ hist.outcome = "returned"
    /\ hist.status = << FALSE >>
    /\ Len(hist.written) > 9

\* C13: every channel-addressed frame (set-velocity, move-absolute) is written
\* after at least one completed position query of the session, and the two
\* channel bytes it carries are bytes 6..7 of the most recent position
\* response, unchanged, on both connect paths.
C13_ChannelFromPositionReply ==
    pc \in { "set_vel_c", "move_c" } =>
        LET f == hist.written[Len(hist.written)]
        IN  /\ IsSetVel(f) \/ IsMoveAbs(f)
            /\ Len(hist.posreply) = 12
            /\ Len(f) = IF IsSetVel(f) THEN 20 ELSE 12
            /\ SubSeq(f, 7, 8) = SubSeq(hist.posreply, 7, 8)

\* C14: the position counter is decoded as a signed 32 bit little-endian
\* integer: for every count c the device reports in bytes 8..11 of the
\* position response, negative ones included, position_counts is c and
\* position_deg is c / counts-per-degree.
C14_PositionDecodedSigned ==
    Len(hist.posreply) = 12 =>
        LET c == FromBytesSigned(SubSeq(hist.posreply, 9, 12))
        IN  /\ self.position_counts = c
            /\ self.position_deg = 1000 * c

\* The session state that replies are decoded into.
SameDecodedState(a, b) ==
    /\ a.position_counts = b.position_counts
    /\ a.position_deg = b.position_deg
    /\ a.ch_id_bytes = b.ch_id_bytes
    /\ a.enable = b.enable
    /\ a._homed = b._homed
    /\ a.max_velocity = b.max_velocity
    /\ a.acceleration = b.acceleration

\* A step in which the read of a decoding request returns fewer bytes than
\* were asked for.
ShortRead ==
    /\ hist'.reads = hist.reads + 1
    /\ \/ pc = "get_enable_r" /\ Len(rx) < 6
       \/ pc = "get_homed_r" /\ Len(rx) < 12
       \/ pc = "get_pos_r" /\ Len(rx) < 12
       \/ pc = "get_vel_r" /\ Len(rx) < 20

\* C15: when a read of _send returns fewer bytes than were asked for, the
\* operation fails with an error and the state it would have decoded
\* (position, enable, homed status, velocity profile) is left as it was; a
\* short position response is never decoded, so it cannot end the settle-poll
\* loop of a home or a move.
C15_ShortReadFails ==
    [][ShortRead =>
          /\ hist'.outcome \notin { "running", "returned" }
          /\ SameDecodedState(self', self)
          /\ hist'.posreply = hist.posreply]_vars

\* The state byte of an enable reply that reports state e.
EnableByte(e) == IF e THEN 1 ELSE 2

\* C16: _set_enable(e) writes the set-enable frame, then a get-enable
\* request, and returns normally only if the reply reports state e; if the
\* reply reports the other state, or a state byte other than 1 or 2, the call
\* fails without another attempt, and during connect no status, home,
\* position or velocity frame is written afterwards.
C16_SetEnableVerified ==
    /\ hist.call = "_set_enable" =>
          /\ \E n \in 0..2 :
                hist.written
                  = SubSeq(<< CmdSetEnable(hist.request.enable),
                              CmdReqEnable >>, 1, n)
          /\ hist.outcome = "returned" =>
                /\ Len(hist.written) = 2
                /\ dev.enable = EnableByte(hist.request.enable)
                /\ self.enable = hist.request.enable
          /\ ( /\ hist.outcome # "running"
               /\ dev.enable # EnableByte(hist.request.enable) )
             => hist.outcome \in { "verify_error", "enable_error" }
    /\ hist.call = "__init__" =>
          /\ pc = "init_31" => dev.enable = 1 /\ self.enable
          /\ dev.enable # 1 =>
                /\ Len(hist.written) <= 3
                /\ hist.outcome \in
                      { "running", "verify_error", "enable_error" }

C16_Witness ==
    /\ hist.call = "__init__"
    /\ hist.outcome = "enable_error"
    /\ dev.enable = 0
    /\ Len(hist.written) = 3

\* C17: a set-velocity verification failure occurs only when the device did
\* not apply the request: for every max velocity and acceleration in [0, 25],
\* values with more than one decimal place included, when the device returns
\* exactly the counts written to it, _set_velocity_parameters returns
\* normally.
C17_VerifyFailsOnlyIfNotApplied ==
    /\ ( /\ pc = "set_vel_161"
         /\ StoredAsSent(hist.written[Len(hist.written) - 1]) )
       => VelocityVerified(self, args.max_velocity, args.acceleration)
    /\ ( /\ hist.call = "_set_velocity_parameters"
         /\ hist.outcome = "verify_error" )
       => ~StoredAsSent(hist.written[Len(hist.written) - 1])

\* C19: the check of _send that the receive buffer is empty after an exchange
\* holds in every reachable state, for every interleaving of the host's calls
\* with the device's move-completed message: in the move-absolute exchange
\* and in a get_position_deg or identify call made while a non-blocking move
\* is pending, so that a position response is decoded from the reply to its
\* own query, never from bytes of a move-completed message.
C19_BufferEmptyAfterExchange ==
    /\ hist.outcome # "buffer_error"
    /\ Len(hist.posreply) = 12 => MsgId(hist.posreply) = << 18, 4 >>

\* C18: for every target in [0, 359.99] degrees, when after the
\* move-absolute command the device comes to report, and keeps reporting, the
\* commanded count, the settle-poll loop ends and a blocking move_deg
\* eventually returns (degrees to counts to degrees recovers a value within
\* the tolerance of the target); while no position within tolerance is
\* reported the call neither returns nor raises.
C18_BlockingMoveReturns ==
    \A n \in 1..MaxCalls :
        ( /\ calls = n
          /\ hist.call = "move_deg"
          /\ hist.request.block
          /\ pc = "move_c" )
        ~> ( /\ calls = n
             /\ hist.call = "move_deg"
             /\ hist.outcome = "returned" )

====
